---- MODULE Spec2Model ----
(***************************************************************************)
(* The order / payment reconciliation path of the file-backed store        *)
(* server (src/server.js): the JSON document db.json behind readDb and     *)
(* writeDb, the checkout handler, the payment webhook and the admin        *)
(* product routes, run as interleaved asynchronous request handlers of one *)
(* single-threaded process.                                                *)
(*                                                                         *)
(* A step of the model is what the event loop runs without interruption:   *)
(* the code of a handler between two I/O completions.  A promise that      *)
(* settles runs its continuation in the same step (microtasks); a file     *)
(* read, a file write, a rename and the payment processor's call complete  *)
(* in steps of their own.                                                  *)
(***************************************************************************)
EXTENDS Integers, Sequences, FiniteSets, TLC

\* ------------------------------------------------------------------ bounds
\* Requests the clients send in one run of Spec and SpecSeq.
MaxRequests == 3
\* Requests the clients send in one run of SpecShop.
MaxShopRequests == 4
\* Checkout requests in one run of SpecCart.
MaxCartRequests == 2
\* Requests in one run of SpecLedger.
MaxLedgerRequests == 3
\* Units of each product in the store SpecStocked starts from.
Stocked == 6
\* Requests in one run of SpecHosted.
MaxHostedRequests == 3
\* Requests in one run of SpecIo.
MaxIoRequests == 3
\* File-backed admin requests in one run of SpecAdmin.
MaxAdminRequests == 2
\* Admin logins, and hours of wall-clock time, in one run of SpecAdmin.
MaxLogins == 2
MaxNow == 14

\* -------------------------------------------------------- program constants
MinQty == 1
MaxQty == 99
\* if (product.priceCents < 50) ... "Price too low"
MinPriceCents == 50
\* expiresAt: Date.now() + 1000 * 60 * 60 * 12, in hours
TokenTtl == 12

\* The request handlers in flight at once: the races of this server are
\* between two requests.
Reqs == {1, 2}
Products == {"p1", "p2"}

\* ------------------------------------------------------ JavaScript values
\* A value where the code expects a number: the finite number h/2 (so that
\* halves are exact), NaN, null, undefined (a missing field), or a string that
\* is not a number.  A numeric string converts to its number wherever the code
\* reads one, and is written as that number.
Fin(h) == [t |-> "num", h |-> h]
N(n) == Fin(2 * n)
NaN == [t |-> "nan", h |-> 0]
Null == [t |-> "null", h |-> 0]
Undefined == [t |-> "undef", h |-> 0]
Text == [t |-> "text", h |-> 0]

\* Number(v)
ToNumber(v) ==
    CASE v.t = "num" -> v
      [] v.t = "null" -> N(0)
      [] OTHER -> NaN
\* v || d
OrElse(v, d) == IF (v.t = "num" /\ v.h # 0) \/ v.t = "text" THEN v ELSE d
\* v ?? d
Nullish(v, d) == IF v.t \in {"null", "undef"} THEN d ELSE v
\* Number.isFinite(v)
IsFinite(v) == v.t = "num"
\* a < b, a > b, a <= b on numbers: false when one of them is NaN
Lt(a, b) == a.t = "num" /\ b.t = "num" /\ a.h < b.h
Gt(a, b) == Lt(b, a)
Le(a, b) == a.t = "num" /\ b.t = "num" /\ a.h <= b.h
\* Math.max(a, b), Math.min(a, b): NaN when one of them is NaN
MathMax(a, b) ==
    IF a.t # "num" \/ b.t # "num" THEN NaN ELSE IF a.h > b.h THEN a ELSE b
MathMin(a, b) ==
    IF a.t # "num" \/ b.t # "num" THEN NaN ELSE IF a.h < b.h THEN a ELSE b
\* a - b, a + b, and c * b for an integer c
Minus(a, b) == IF a.t # "num" \/ b.t # "num" THEN NaN ELSE Fin(a.h - b.h)
Plus(a, b) == IF a.t # "num" \/ b.t # "num" THEN NaN ELSE Fin(a.h + b.h)
Times(c, b) == IF b.t # "num" THEN NaN ELSE Fin(c * b.h)
\* Math.round(v) of a finite number: halves round up
Round(v) == (v.h + 1) \div 2
\* JSON.stringify then JSON.parse of a number: NaN is written as null
Json(v) == IF v.t = "nan" THEN Null ELSE v

\* ------------------------------------------------------------- data model
\* A product of db.products; a product id with no entry has present = FALSE.
Product(inv, act, price) ==
    [present |-> TRUE, inventory |-> inv, active |-> act, priceCents |-> price]
NoProduct ==
    [present |-> FALSE, inventory |-> N(0), active |-> FALSE, priceCents |-> 0]

\* { products: [], orders: [] }
InitialDoc == [products |-> [p \in Products |-> NoProduct], orders |-> <<>>]

\* The catalog a deployed store starts from: one unit of p1, two of p2.
SeedDoc ==
    [products |-> [p \in Products |->
                      IF p = "p1" THEN Product(N(1), TRUE, 100)
                      ELSE Product(N(2), TRUE, 250)],
     orders |-> <<>>]

\* A file of the data directory: absent, partially written, or a document.
NoFile == [kind |-> "none", doc |-> InitialDoc]
TornFile == [kind |-> "torn", doc |-> InitialDoc]
\* db.json.tmp as an abandoned write left it: complete, never read again.
StaleFile == [kind |-> "stale", doc |-> InitialDoc]
\* JSON.stringify(db, null, 2): the document as the file holds it.
Stringify(d) ==
    [products |-> d.products,
     orders |-> [i \in 1..Len(d.orders) |->
        [d.orders[i] EXCEPT
            !.subtotalCents = Json(@),
            !.items = [j \in 1..Len(@) |-> [@[j] EXCEPT !.qty = Json(@)]]]]]
FileOf(d) == [kind |-> "doc", doc |-> Stringify(d)]

\* db.orders.find(o => o.id === orderId): the index of the first match, 0 if none.
FindOrder(doc, oid) ==
    LET hits == {i \in 1..Len(doc.orders) : doc.orders[i].id = oid}
    IN  IF hits = {} THEN 0 ELSE CHOOSE i \in hits : \A j \in hits : i <= j

\* ------------------------------------------------- payment webhook, pure part
\* The loop over order.items: each item's product, if the catalog still has
\* it, loses the item's quantity, floored at zero.
RECURSIVE DecItems(_, _), DecItems_NoFloor(_, _)
DecItems_NoFloor(products, items) ==
    IF items = <<>> THEN products
    ELSE LET item == Head(items)
             p == products[item.productId]
             dec == IF p.present
                    THEN [products EXCEPT ![item.productId].inventory =
                              Minus(ToNumber(Nullish(p.inventory, N(0))),
                                    ToNumber(item.qty))]
                    ELSE products
         IN  DecItems_NoFloor(dec, Tail(items))

DecItems(products, items) ==
    IF items = <<>> THEN products
    ELSE LET item == Head(items)
             p == products[item.productId]
             dec == IF p.present
                    THEN [products EXCEPT ![item.productId].inventory =
                              MathMax(N(0),
                                  Minus(ToNumber(Nullish(p.inventory, N(0))),
                                        ToNumber(item.qty)))]
                    ELSE products
         IN  DecItems(dec, Tail(items))

PayOrder_KeepStock(doc, i, t) ==
    [products |-> doc.products,
     orders |-> [doc.orders EXCEPT ![i].status = "paid", ![i].paidAt = t]]

\* The paid transition on the handler's copy of the document: order i paid at t.
PayOrder(doc, i, t) ==
    [products |-> DecItems(doc.products, doc.orders[i].items),
     orders |-> [doc.orders EXCEPT ![i].status = "paid", ![i].paidAt = t]]

ShouldPay_AnyOrder(doc, i) == i # 0

\* order && order.status !== "paid"
ShouldPay(doc, i) == i # 0 /\ doc.orders[i].status # "paid"

\* ------------------------------------------------------- checkout, pure part
\* Math.max(1, Math.min(99, Number(x.qty || 1)))
ClampQty(raw) ==
    MathMax(N(MinQty), MathMin(N(MaxQty), ToNumber(OrElse(raw, N(1)))))

\* cart.map(x => ({ productId: String(x.id || ""), qty: ... })): every other
\* field of a cart line is dropped.
CartItems(cart) ==
    [i \in 1..Len(cart) |-> [productId |-> cart[i].id, qty |-> ClampQty(cart[i].qty)]]

\* db.products.find(prod => prod.id === item.productId)
Lookup(doc, id) == IF id \in Products THEN doc.products[id] ELSE NoProduct

\* The three rejections of one cart line, in the code's order.
ItemReject(doc, item) ==
    LET p == Lookup(doc, item.productId)
    IN  IF ~p.present \/ ~p.active THEN "unavailable"
        ELSE IF Le(ToNumber(Nullish(p.inventory, N(0))), N(0)) THEN "soldout"
        ELSE IF Gt(item.qty, ToNumber(Nullish(p.inventory, N(0))))
             THEN "insufficient"
        ELSE "ok"

\* The first cart line the loop rejects, 0 when it accepts them all.
FirstReject(doc, items) ==
    LET bad == {i \in 1..Len(items) : ItemReject(doc, items[i]) # "ok"}
    IN  IF bad = {} THEN 0 ELSE CHOOSE i \in bad : \A j \in bad : i <= j

ItemPrice_FromClient(p, line) ==
    IF line.price.t = "num" THEN line.price.h \div 2 ELSE p.priceCents

\* The price checkout uses for a cart line: the catalog's.
ItemPrice(p, line) == p.priceCents

\* orderItems: each accepted line with the price of its catalog product.
OrderItems(doc, cart) ==
    [i \in 1..Len(cart) |->
        [productId |-> cart[i].id,
         priceCents |-> ItemPrice(Lookup(doc, cart[i].id), cart[i]),
         qty |-> ClampQty(cart[i].qty)]]

\* line_items of stripe.checkout.sessions.create: quantity and unit_amount.
LineItems(doc, cart) ==
    [i \in 1..Len(cart) |->
        [quantity |-> ClampQty(cart[i].qty),
         unit_amount |-> ItemPrice(Lookup(doc, cart[i].id), cart[i])]]

\* orderItems.reduce((s, i) => s + i.priceCents * i.qty, 0)
RECURSIVE Subtotal(_)
Subtotal(items) ==
    IF items = <<>> THEN N(0)
    ELSE LET n == Len(items)
         IN  Plus(Subtotal(SubSeq(items, 1, n - 1)),
                  Times(items[n].priceCents, items[n].qty))

NewOrder(oid, items) ==
    [id |-> oid, status |-> "pending", paidAt |-> 0, items |-> items,
     subtotalCents |-> Subtotal(items)]

\* db.orders.push({...})
PushOrder(doc, oid, items) ==
    [doc EXCEPT !.orders = Append(doc.orders, NewOrder(oid, items))]

\* ------------------------------------------------- admin products, pure part
\* moneyCents(n)
MoneyCents(v) == IF IsFinite(ToNumber(v)) THEN Round(ToNumber(v)) ELSE 0

\* POST /api/admin/products: the product built from the body; an inventory
\* that is not a finite number becomes 1, a negative one 0.
NewProduct(body) ==
    LET inv == IF IsFinite(ToNumber(body.inventory))
               THEN ToNumber(body.inventory) ELSE N(1)
    IN  Product(IF Lt(inv, N(0)) THEN N(0) ELSE inv,
                ~(body.hasActive /\ ~body.active),
                MoneyCents(body.priceCents))

CreateProduct(doc, id, body) == [doc EXCEPT !.products[id] = NewProduct(body)]

EditedProduct_Unclamped(p, body) ==
    Product(IF body.inventory.t # "undef"
            THEN ToNumber(body.inventory) ELSE p.inventory,
            IF body.hasActive THEN body.active ELSE p.active,
            IF body.priceCents.t # "undef"
            THEN MoneyCents(body.priceCents) ELSE p.priceCents)

\* PUT /api/admin/products/:id: the fields the body names are overwritten; an
\* inventory that is not finite or is negative becomes 0.
EditedProduct(p, body) ==
    LET inv == IF body.inventory.t # "undef"
               THEN ToNumber(body.inventory) ELSE p.inventory
    IN  Product(IF ~IsFinite(inv) \/ Lt(inv, N(0)) THEN N(0) ELSE inv,
                IF body.hasActive THEN body.active ELSE p.active,
                IF body.priceCents.t # "undef"
                THEN MoneyCents(body.priceCents) ELSE p.priceCents)

UpdateProduct(doc, id, body) ==
    [doc EXCEPT !.products[id] = EditedProduct(doc.products[id], body)]

\* DELETE /api/admin/products/:id
DeleteProduct(doc, id) == [doc EXCEPT !.products[id] = NoProduct]

\* ------------------------------------------------------------------ state
VARIABLES
    secretSet,   \* STRIPE_WEBHOOK_SECRET is configured
    dbFile,      \* data/db.json
    tmpFile,     \* data/db.json.tmp
    queue,       \* the writes chained on writeLock, oldest first (request ids)
    wphase,      \* the oldest write: "idle", "writing" (writeFile), "written"
    lockBroken,  \* writeLock is a rejected promise
    pc,          \* each request handler's position
    kind,        \* "hook", "checkout" or "admin"
    arg,         \* the request's input, and the order id it works on
    base,        \* the document readDb returned to the handler
    db,          \* the handler's db object (the document it passes to writeDb)
    resp,        \* the responses sent by the latest step
    nextOid,     \* the next crypto.randomUUID()
    clock,       \* the next nowIso() of a paid transition
    started,     \* requests received so far
    sessions,    \* order ids the payment processor holds a checkout session for
    adminTokens, \* the adminTokens map: issued tokens and their expiresAt
    nextTok,     \* the next makeToken()
    dateNow,         \* Date.now(), in hours
    catalog,     \* the product ids of the hosted catalog (Supabase)
    hosted       \* the products table of the hosted-catalog server

\* The state of the admin API.
admin == <<adminTokens, nextTok, dateNow, catalog, hosted>>

vars == <<secretSet, dbFile, tmpFile, queue, wphase, lockBroken, pc,
          kind, arg, base, db, resp, nextOid, clock, started, sessions,
          adminTokens, nextTok, dateNow, catalog, hosted>>

\* The body of an admin product request (its name is taken as given).
NoBody ==
    [inventory |-> Undefined, priceCents |-> Undefined,
     hasActive |-> FALSE, active |-> FALSE]
\* PUT bodies: an inventory, a price.
InvBody(v) == [NoBody EXCEPT !.inventory = v]
PriceBody(v) == [NoBody EXCEPT !.priceCents = v]
\* A POST body: an inventory and a price of 100 cents.
NewBody(v) == [NoBody EXCEPT !.inventory = v, !.priceCents = N(100)]

NoArg ==
    [cart |-> <<>>, orderId |-> 0, op |-> "", pid |-> "", body |-> NoBody,
     lines |-> <<>>, sig |-> FALSE, completed |-> FALSE,
     rows |-> InitialDoc.products]
\* A response: its status code (0: the request is left without one), what it
\* says, the order the request was about and the item it names.
NoResp == [code |-> -1, why |-> "", orderId |-> 0, item |-> ""]
Resp(code, why, oid) == [code |-> code, why |-> why, orderId |-> oid, item |-> ""]

\* ----------------------------------------------------------------- inputs
\* A cart line: the product id, the qty and the price the client put on it.
Line(id, qty) == [id |-> id, qty |-> qty, price |-> Undefined]
\* The carts a client posts (the empty cart is added by CheckoutStart).
Carts == { <<Line("p1", N(1))>>, <<Line("p2", N(1)), Line("p1", N(1))>> }
\* The qty values a client puts on a cart line: missing, null, a string that
\* is no number, zero, negative, one, one and a half, 99, 100 and 150.
RawQtys ==
    {Undefined, Null, Text, N(0), N(-1), N(1), Fin(3), N(MaxQty),
     N(MaxQty + 1), N(MaxQty + 51)}
\* Carts of one line, with and without a client-side price, carts whose
\* second line is the odd one, and carts that name a product twice.
CartInputs ==
    {<<[Line(id, q) EXCEPT !.price = c]>> :
        id \in Products, q \in RawQtys, c \in {Undefined, N(1)}}
    \cup {<<Line("p2", N(1)), Line("p1", q)>> : q \in RawQtys}
    \cup {<<Line(id, N(1)), Line(id, N(1))>> : id \in Products}
\* The catalogs those carts meet: p1 with one unit, inactive, sold out or
\* missing; p2 with 120 units.
CartDocs ==
    {[products |-> [p \in Products |->
                       IF p = "p1" THEN p1 ELSE Product(N(120), TRUE, 250)],
      orders |-> <<>>] :
        p1 \in {Product(N(1), TRUE, 100), Product(N(1), FALSE, 100),
                Product(N(0), TRUE, 100), NoProduct}}
\* Carts of whole, fractional and non-numeric quantities.
LedgerCarts ==
    { <<Line("p1", N(1))>>, <<Line("p2", N(2)), Line("p1", N(1))>>,
      <<Line("p2", Fin(3))>>, <<Line("p2", Text)>> }
\* The admin product requests: the route, the product id, the body.
AdminReq(op, pid, body) == [op |-> op, pid |-> pid, body |-> body]
AdminAll ==
    {AdminReq("create", pid, NewBody(v)) : pid \in Products, v \in {N(0), N(2)}}
    \cup {AdminReq("update", pid, InvBody(v)) : pid \in Products, v \in {N(0), N(2)}}
    \cup {AdminReq("delete", pid, NoBody) : pid \in Products}
\* A restock of p1, the admin request that races with the storefront's.
AdminLight == {AdminReq("update", "p1", InvBody(N(2)))}
\* Admin requests with any inventory and price: negative, fractional, not a
\* number; and deletions.
AdminLedger ==
    {AdminReq("update", pid, body) :
        pid \in Products,
        body \in {InvBody(N(-1)), InvBody(Text), PriceBody(N(300)), PriceBody(Text)}}
    \cup {AdminReq("create", "p1", NewBody(v)) : v \in {N(-1), Fin(5), Text}}
    \cup {AdminReq("delete", pid, NoBody) : pid \in Products}

\* ------------------------------------------------- handlers, between awaits
\* What a handler has done when it next awaits or returns: its position, its
\* db object, its response, whether it called writeDb (enq), read the clock
\* (tick) or generated an order id (fresh).  A handler that has returned
\* leaves its slot idle.
Finish(a, code, why) ==
    [pc |-> "idle", db |-> InitialDoc, resp |-> Resp(code, why, a.orderId),
     arg |-> NoArg, enq |-> FALSE, tick |-> FALSE, fresh |-> FALSE]

\* The same, with a response that names a cart item's product.
FinishItem(a, code, why, item) ==
    [Finish(a, code, why) EXCEPT !.resp.item = item]

Await(a, where) ==
    [pc |-> where, db |-> InitialDoc, resp |-> NoResp, arg |-> a,
     enq |-> FALSE, tick |-> FALSE, fresh |-> FALSE]

AwaitWrite(a, doc, tick, fresh) ==
    [pc |-> "writeWait", db |-> doc, resp |-> NoResp, arg |-> a,
     enq |-> TRUE, tick |-> tick, fresh |-> fresh]

\* /webhook after readDb: the paid transition, or nothing.
HookCont(a, snap, now) ==
    LET i == FindOrder(snap, a.orderId)
    IN  IF ShouldPay(snap, i)
        THEN AwaitWrite(a, PayOrder(snap, i, now), TRUE, FALSE)
        ELSE Finish(a, 200, IF i = 0 THEN "unknown" ELSE "noop")

\* /api/create-checkout-session after readDb: reject the cart, or push the order.
CheckoutCont(a, snap, oid) ==
    LET items == CartItems(a.cart)
        bad == FirstReject(snap, items)
    IN  IF bad # 0
        THEN FinishItem(a, 400, ItemReject(snap, items[bad]), items[bad].productId)
        ELSE AwaitWrite([a EXCEPT !.orderId = oid,
                                  !.lines = LineItems(snap, a.cart)],
                        PushOrder(snap, oid, OrderItems(snap, a.cart)),
                        FALSE, TRUE)

\* The admin product routes after readDb.
AdminCont(a, snap) ==
    LET p == Lookup(snap, a.pid)
    IN  CASE a.op = "create" ->
                IF p.present THEN Finish(a, 400, "exists")
                ELSE IF NewProduct(a.body).priceCents < MinPriceCents
                     THEN Finish(a, 400, "pricelow")
                ELSE AwaitWrite(a, CreateProduct(snap, a.pid, a.body), FALSE, FALSE)
          [] a.op = "update" ->
                IF ~p.present THEN Finish(a, 404, "notfound")
                ELSE IF EditedProduct(p, a.body).priceCents < MinPriceCents
                     THEN Finish(a, 400, "pricelow")
                ELSE AwaitWrite(a, UpdateProduct(snap, a.pid, a.body), FALSE, FALSE)
          [] OTHER ->
                IF ~p.present THEN Finish(a, 404, "notfound")
                ELSE AwaitWrite(a, DeleteProduct(snap, a.pid), FALSE, FALSE)

\* The hosted-catalog server's /webhook after readDb: the order is marked
\* paid; there is no loop over its items.
HostedPayOrder(doc, i, t) ==
    [doc EXCEPT !.orders[i].status = "paid", !.orders[i].paidAt = t]

HostedHookCont(a, snap, now) ==
    LET i == FindOrder(snap, a.orderId)
    IN  IF ShouldPay(snap, i)
        THEN AwaitWrite(a, HostedPayOrder(snap, i, now), TRUE, FALSE)
        ELSE Finish(a, 200, IF i = 0 THEN "unknown" ELSE "noop")

\* The rows supabase returned, in the shape the cart checks read them.
Rows(rows) == [products |-> rows, orders |-> <<>>]

\* The hosted-catalog server's checkout after the products were fetched:
\* reject the cart, or build the order's items and id and call readDb.
HostedCheckoutFetched(a, rows, oid) ==
    LET items == CartItems(a.cart)
        bad == FirstReject(Rows(rows), items)
    IN  IF bad # 0
        THEN FinishItem(a, 400, ItemReject(Rows(rows), items[bad]),
                        items[bad].productId)
        ELSE [Await([a EXCEPT !.orderId = oid, !.rows = rows,
                              !.lines = LineItems(Rows(rows), a.cart)],
                    "read")
                EXCEPT !.fresh = TRUE]

\* The same after readDb: push the order, writeDb.
HostedCheckoutCont(a, snap) ==
    AwaitWrite(a, PushOrder(snap, a.orderId, OrderItems(Rows(a.rows), a.cart)),
               FALSE, FALSE)

HandlerCont(k, a, snap, now, oid) ==
    CASE k = "hook" -> HookCont(a, snap, now)
      [] k = "checkout" -> CheckoutCont(a, snap, oid)
      [] k = "hostedHook" -> HostedHookCont(a, snap, now)
      [] k = "hostedCheckout" -> HostedCheckoutCont(a, snap)
      [] OTHER -> AdminCont(a, snap)

\* An awaited promise rejected: the webhook's and the checkout's catch blocks
\* answer 400 and 500; the admin routes have none, the request is never answered.
Failed_Swallowed(k, a) == Finish(a, 200, "error")

Failed(k, a) ==
    CASE k \in {"hook", "hostedHook"} -> Finish(a, 400, "error")
      [] k \in {"checkout", "hostedCheckout"} -> Finish(a, 500, "error")
      [] OTHER -> Finish(a, 0, "unhandled")

\* writeDb's promise resolved: the handler goes on.
AfterWrite(k, a) ==
    CASE k \in {"hook", "hostedHook"} -> Finish(a, 200, "paid")
      [] k \in {"checkout", "hostedCheckout"} -> Await(a, "session")
      [] OTHER -> Finish(a, 200, "saved")

\* writeDb(db): the write is chained on writeLock.  On a rejected writeLock the
\* callback never runs and the returned promise is rejected.
WriteDb(k, o, broken) ==
    IF o.enq /\ broken
    THEN [Failed(k, o.arg) EXCEPT !.tick = o.tick, !.fresh = o.fresh]
    ELSE o

\* readDb's catch block: writeDb(initial), then return initial.
ReadRecover(k, a, broken) ==
    WriteDb(k, [AwaitWrite(a, InitialDoc, FALSE, FALSE) EXCEPT !.pc = "initWait"],
            broken)

Chained_Front(q, h) == <<h>> \o q

\* writeLock = writeLock.then(...): the write is chained behind every
\* write chained before it.
Chained(q, h) == Append(q, h)

Free(h) == pc[h] = "idle"

\* Request h, of kind k, moves to outcome o, having read document b; q is the
\* write queue before o's own write is chained.  Only h is answered in this step.
Apply(h, k, o, b, q) ==
    /\ pc' = [pc EXCEPT ![h] = o.pc]
    /\ kind' = [kind EXCEPT ![h] = IF o.pc = "idle" THEN "none" ELSE k]
    /\ db' = [db EXCEPT ![h] = o.db]
    /\ base' = [base EXCEPT ![h] = IF o.pc \in {"cont", "initWait", "writeWait"}
                                   THEN b ELSE InitialDoc]
    /\ resp' = [g \in Reqs |-> IF g = h THEN o.resp ELSE NoResp]
    /\ arg' = [arg EXCEPT ![h] = o.arg]
    /\ queue' = IF o.enq THEN Chained(q, h) ELSE q
    /\ clock' = IF o.tick THEN clock + 1 ELSE clock
    /\ nextOid' = IF o.fresh THEN nextOid + 1 ELSE nextOid

NoResps == [h \in Reqs |-> NoResp]

\* A new request may start in slot h, the lowest free one; with seq, only when
\* no other request is in flight.
MayStart(h, seq, budget) ==
    /\ Free(h)
    /\ \A g \in Reqs : g < h => ~Free(g)
    /\ seq => \A g \in Reqs : Free(g)
    /\ started < budget

\* requireAdmin: the token of the Authorization header against adminTokens.
RequireAdmin(tokens, tok, t) ==
    LET info == {x \in tokens : x.token = tok}
    IN  IF info = {} THEN "notauthorized"
        ELSE IF \E x \in info : t > x.expiresAt THEN "expired"
        ELSE "ok"

HookGate_NoVerify(secret, sig, completed, oid) ==
    IF ~secret THEN "ignored"
    ELSE IF ~completed \/ oid = 0 THEN "skipped"
    ELSE "read"

\* /webhook before readDb: without a secret everything is ignored; a bad
\* signature makes constructEvent throw; only checkout.session.completed
\* events with an order id go on.
HookGate(secret, sig, completed, oid) ==
    IF ~secret THEN "ignored"
    ELSE IF ~sig THEN "badsig"
    ELSE IF ~completed \/ oid = 0 THEN "skipped"
    ELSE "read"

\* ---------------------------------------------------------------- actions
\* POST /webhook up to its first await: the secret, the signature
\* (constructEvent throws on a bad one), the event type, the order id.
HookStart(h, seq, budget) ==
    /\ MayStart(h, seq, budget)
    /\ started' = started + 1
    /\ \E sig \in BOOLEAN, completed \in BOOLEAN, oid \in sessions \cup {0} :
          LET a == [NoArg EXCEPT !.orderId = oid, !.sig = sig,
                                 !.completed = completed]
              gate == HookGate(secretSet, sig, completed, oid)
              o == CASE gate = "ignored" -> Finish(a, 200, "ignored")
                     [] gate = "badsig" -> Finish(a, 400, "badsig")
                     [] gate = "skipped" -> Finish(a, 200, "skipped")
                     [] OTHER -> Await(a, "read")
          IN  Apply(h, "hook", o, InitialDoc, queue)
    /\ UNCHANGED <<secretSet, dbFile, tmpFile, wphase, lockBroken,
                   sessions>>
    /\ UNCHANGED admin

\* POST /api/create-checkout-session up to its first await.
CheckoutStart(h, seq, budget, carts) ==
    /\ MayStart(h, seq, budget)
    /\ started' = started + 1
    /\ \E cart \in carts :
          LET a == [NoArg EXCEPT !.cart = cart]
              o == IF cart = <<>> THEN Finish(a, 400, "emptycart")
                   ELSE Await(a, "read")
          IN  Apply(h, "checkout", o, InitialDoc, queue)
    /\ UNCHANGED <<secretSet, dbFile, tmpFile, wphase, lockBroken,
                   sessions>>
    /\ UNCHANGED admin

\* POST, PUT, DELETE /api/admin/products up to the first await.
AdminStart(h, seq, budget, inputs, tokens) ==
    /\ MayStart(h, seq, budget)
    /\ started' = started + 1
    /\ \E r \in inputs, tok \in tokens :
          LET a == [NoArg EXCEPT !.op = r.op, !.pid = r.pid, !.body = r.body]
              auth == RequireAdmin(adminTokens, tok, dateNow)
          IN  /\ Apply(h, "admin",
                       IF auth = "ok" THEN Await(a, "read") ELSE Finish(a, 401, auth),
                       InitialDoc, queue)
              /\ adminTokens' = IF auth = "expired"
                                THEN {x \in adminTokens : x.token # tok}
                                ELSE adminTokens
    /\ UNCHANGED <<secretSet, dbFile, tmpFile, wphase, lockBroken,
                   sessions>>
    /\ UNCHANGED <<nextTok, dateNow, catalog, hosted>>

\* readDb: fsp.readFile and JSON.parse succeed; the handler holds the
\* document the file held at this instant.
ReadOk(h) ==
    /\ pc[h] = "read"
    /\ dbFile.kind = "doc"
    /\ pc' = [pc EXCEPT ![h] = "cont"]
    /\ db' = [db EXCEPT ![h] = dbFile.doc]
    /\ base' = [base EXCEPT ![h] = dbFile.doc]
    /\ resp' = NoResps
    /\ UNCHANGED <<secretSet, dbFile, tmpFile, queue, wphase,
                   lockBroken, kind, arg, nextOid, clock, sessions>>
    /\ UNCHANGED started
    /\ UNCHANGED admin

\* readDb: the read or the parse throws, because db.json is missing or
\* partial or, with ioError, because the read itself fails; the catch block
\* writes the initial document.
ReadFail(h, ioError) ==
    /\ pc[h] = "read"
    /\ ioError \/ dbFile.kind # "doc"
    /\ Apply(h, kind[h], ReadRecover(kind[h], arg[h], lockBroken), InitialDoc, queue)
    /\ UNCHANGED <<secretSet, dbFile, tmpFile, wphase, lockBroken,
                   sessions>>
    /\ UNCHANGED started
    /\ UNCHANGED admin

\* The handler's code after `await readDb()`, up to its next await.
Cont(h) ==
    /\ pc[h] = "cont"
    /\ Apply(h, kind[h],
             WriteDb(kind[h], HandlerCont(kind[h], arg[h], db[h], clock, nextOid),
                     lockBroken),
             base[h], queue)
    /\ UNCHANGED <<secretSet, dbFile, tmpFile, wphase, lockBroken,
                   sessions>>
    /\ UNCHANGED started
    /\ UNCHANGED admin

\* The oldest chained write starts: fsp.writeFile(tmp) opens and truncates.
StartWrite ==
    /\ queue # <<>>
    /\ wphase = "idle"
    /\ wphase' = "writing"
    /\ tmpFile' = TornFile
    /\ resp' = NoResps
    /\ UNCHANGED <<secretSet, dbFile, queue, lockBroken, pc, kind,
                   arg, base, db, nextOid, clock, sessions>>
    /\ UNCHANGED started
    /\ UNCHANGED admin

\* fsp.writeFile(tmp, JSON.stringify(db)) completes.
FinishWrite ==
    /\ wphase = "writing"
    /\ wphase' = "written"
    /\ tmpFile' = FileOf(db[Head(queue)])
    /\ resp' = NoResps
    /\ UNCHANGED <<secretSet, dbFile, queue, lockBroken, pc, kind,
                   arg, base, db, nextOid, clock, sessions>>
    /\ UNCHANGED started
    /\ UNCHANGED admin

RenameReady_NoAwait(phase) == phase \in {"writing", "written"}

\* `await fsp.writeFile(...)` before fsp.rename: the rename is called once
\* the temp file is complete.
RenameReady(phase) == phase = "written"

\* The file the oldest write's rename leaves at DB_PATH.
Renamed(tmp) == tmp

\* fsp.rename(tmp, DB_PATH) completes, the write's promise resolves and the
\* handler awaiting it runs on: readDb's caller with the initial document,
\* writeDb's caller to its response or to the payment processor's call.
Rename ==
    /\ queue # <<>>
    /\ RenameReady(wphase)
    /\ wphase' = "idle"
    /\ dbFile' = Renamed(tmpFile)
    /\ tmpFile' = NoFile
    /\ LET h == Head(queue)
       IN  IF pc[h] = "initWait"
           THEN Apply(h, kind[h],
                      HandlerCont(kind[h], arg[h], InitialDoc, clock, nextOid),
                      InitialDoc, Tail(queue))
           ELSE Apply(h, kind[h], AfterWrite(kind[h], arg[h]), InitialDoc,
                      Tail(queue))
    /\ UNCHANGED <<secretSet, lockBroken, sessions>>
    /\ UNCHANGED started
    /\ UNCHANGED admin

\* db.json.tmp once the write that made it is given up.
Abandoned(tmp) == IF tmp.kind = "doc" THEN StaleFile ELSE tmp

\* The oldest write's writeFile or rename throws: its promise rejects, and so
\* does every promise chained on it; each awaiting handler runs its failure path.
WriteError ==
    /\ queue # <<>>
    /\ lockBroken' = TRUE
    /\ queue' = <<>>
    /\ wphase' = "idle"
    /\ tmpFile' = Abandoned(tmpFile)
    /\ LET hit == {queue[i] : i \in 1..Len(queue)}
           out == [h \in Reqs |-> Failed(kind[h], arg[h])]
       IN  /\ pc' = [h \in Reqs |-> IF h \in hit THEN out[h].pc ELSE pc[h]]
           /\ kind' = [h \in Reqs |-> IF h \in hit THEN "none" ELSE kind[h]]
           /\ arg' = [h \in Reqs |-> IF h \in hit THEN out[h].arg ELSE arg[h]]
           /\ resp' = [h \in Reqs |-> IF h \in hit THEN out[h].resp ELSE NoResp]
           /\ db' = [h \in Reqs |-> IF h \in hit THEN InitialDoc ELSE db[h]]
           /\ base' = [h \in Reqs |-> IF h \in hit THEN InitialDoc ELSE base[h]]
    /\ UNCHANGED <<secretSet, dbFile, nextOid, clock, sessions>>
    /\ UNCHANGED started
    /\ UNCHANGED admin

\* stripe.checkout.sessions.create resolves: the client is sent the session's
\* url, and the processor may from now on deliver the order's payment event.
SessionOk(h) ==
    /\ pc[h] = "session"
    /\ sessions' = sessions \cup {arg[h].orderId}
    /\ Apply(h, kind[h], Finish(arg[h], 200, "created"), InitialDoc, queue)
    /\ UNCHANGED <<secretSet, dbFile, tmpFile, wphase, lockBroken>>
    /\ UNCHANGED started
    /\ UNCHANGED admin

\* stripe.checkout.sessions.create rejects: the catch block answers 500.
SessionFail(h) ==
    /\ pc[h] = "session"
    /\ Apply(h, kind[h], Finish(arg[h], 500, "session"), InitialDoc, queue)
    /\ UNCHANGED <<secretSet, dbFile, tmpFile, wphase, lockBroken,
                   sessions>>
    /\ UNCHANGED started
    /\ UNCHANGED admin

\* The process dies and is started again: the handlers, the write chain and
\* writeLock are gone, the files stay as they are.
Crash ==
    /\ pc' = [h \in Reqs |-> "idle"]
    /\ kind' = [h \in Reqs |-> "none"]
    /\ arg' = [h \in Reqs |-> NoArg]
    /\ base' = [h \in Reqs |-> InitialDoc]
    /\ db' = [h \in Reqs |-> InitialDoc]
    /\ resp' = NoResps
    /\ queue' = <<>>
    /\ wphase' = "idle"
    /\ lockBroken' = FALSE
    /\ tmpFile' = Abandoned(tmpFile)
    /\ adminTokens' = {}
    /\ UNCHANGED <<secretSet, dbFile, nextOid, clock, sessions>>
    /\ UNCHANGED started
    /\ UNCHANGED <<nextTok, dateNow, catalog, hosted>>

\* POST /api/admin/login: the right password issues a token good for 12 hours.
Login(maxLogins) ==
    /\ nextTok <= maxLogins
    /\ \E right \in BOOLEAN :
          /\ adminTokens' = IF right
                            THEN adminTokens \cup {[token |-> nextTok,
                                                    expiresAt |-> dateNow + TokenTtl]}
                            ELSE adminTokens
          /\ nextTok' = IF right THEN nextTok + 1 ELSE nextTok
    /\ resp' = NoResps
    /\ UNCHANGED <<secretSet, dbFile, tmpFile, queue, wphase, lockBroken, pc,
                   kind, arg, base, db, nextOid, clock, started, sessions,
                   dateNow, catalog, hosted>>

\* Time passes: an hour, or a token's whole life.
Tick(maxNow) ==
    /\ \E d \in {1, TokenTtl} : dateNow + d <= maxNow /\ dateNow' = dateNow + d
    /\ resp' = NoResps
    /\ UNCHANGED <<secretSet, dbFile, tmpFile, queue, wphase, lockBroken, pc,
                   kind, arg, base, db, nextOid, clock, started, sessions,
                   adminTokens, nextTok, catalog, hosted>>

\* The hosted admin API: POST and DELETE /api/admin/products on the hosted
\* catalog, whatever Authorization header the request carries.
HostedAdmin(tokens) ==
    /\ \E tok \in tokens, pid \in Products, op \in {"create", "delete"} :
          catalog' = IF op = "create" THEN catalog \cup {pid} ELSE catalog \ {pid}
    /\ resp' = NoResps
    /\ UNCHANGED <<secretSet, dbFile, tmpFile, queue, wphase, lockBroken, pc,
                   kind, arg, base, db, nextOid, clock, started, sessions,
                   adminTokens, nextTok, dateNow, hosted>>

\* The hosted-catalog server's POST /webhook up to its first await.
HostedHookStart(h, seq, budget) ==
    /\ MayStart(h, seq, budget)
    /\ started' = started + 1
    /\ \E sig \in BOOLEAN, completed \in BOOLEAN, oid \in sessions \cup {0} :
          LET a == [NoArg EXCEPT !.orderId = oid, !.sig = sig,
                                 !.completed = completed]
              gate == HookGate(secretSet, sig, completed, oid)
              o == CASE gate = "ignored" -> Finish(a, 200, "ignored")
                     [] gate = "badsig" -> Finish(a, 400, "badsig")
                     [] gate = "skipped" -> Finish(a, 200, "skipped")
                     [] OTHER -> Await(a, "read")
          IN  Apply(h, "hostedHook", o, InitialDoc, queue)
    /\ UNCHANGED <<secretSet, dbFile, tmpFile, wphase, lockBroken,
                   sessions>>
    /\ UNCHANGED admin

\* The hosted-catalog server's POST /api/create-checkout-session up to its
\* first await, the select on the products table.
HostedCheckoutStart(h, seq, budget, carts) ==
    /\ MayStart(h, seq, budget)
    /\ started' = started + 1
    /\ \E cart \in carts :
          LET a == [NoArg EXCEPT !.cart = cart]
              o == IF cart = <<>> THEN Finish(a, 400, "emptycart")
                   ELSE Await(a, "fetch")
          IN  Apply(h, "hostedCheckout", o, InitialDoc, queue)
    /\ UNCHANGED <<secretSet, dbFile, tmpFile, wphase, lockBroken,
                   sessions>>
    /\ UNCHANGED admin

\* The select resolves, with the rows or with an error.
HostedFetch(h) ==
    /\ pc[h] = "fetch"
    /\ \E error \in BOOLEAN :
          Apply(h, kind[h],
                IF error THEN Finish(arg[h], 500, "error")
                ELSE HostedCheckoutFetched(arg[h], hosted, nextOid),
                InitialDoc, queue)
    /\ UNCHANGED <<secretSet, dbFile, tmpFile, wphase, lockBroken,
                   sessions>>
    /\ UNCHANGED started
    /\ UNCHANGED admin

\* A row of POST /api/admin/bulk-import.
ImportedRow(body) ==
    LET inv == IF IsFinite(ToNumber(body.inventory))
               THEN ToNumber(body.inventory) ELSE N(0)
    IN  Product(IF ~IsFinite(inv) \/ Lt(inv, N(0)) THEN N(0) ELSE inv,
                ~(body.hasActive /\ ~body.active),
                MoneyCents(body.priceCents))

\* POST /api/admin/bulk-import with one product: the row is upserted.
BulkImport(tokens, bodies) ==
    /\ \E tok \in tokens, pid \in Products, body \in bodies :
          /\ RequireAdmin(adminTokens, tok, dateNow) = "ok"
          /\ ImportedRow(body).priceCents >= MinPriceCents
          /\ hosted' = [hosted EXCEPT ![pid] = ImportedRow(body)]
    /\ resp' = NoResps
    /\ UNCHANGED <<secretSet, dbFile, tmpFile, queue, wphase, lockBroken, pc,
                   kind, arg, base, db, nextOid, clock, started, sessions,
                   adminTokens, nextTok, dateNow, catalog>>

\* ---------------------------------------------------------- specifications
InitCommon ==
    /\ tmpFile = NoFile
    /\ queue = <<>>
    /\ wphase = "idle"
    /\ lockBroken = FALSE
    /\ pc = [h \in Reqs |-> "idle"]
    /\ kind = [h \in Reqs |-> "none"]
    /\ arg = [h \in Reqs |-> NoArg]
    /\ base = [h \in Reqs |-> InitialDoc]
    /\ db = [h \in Reqs |-> InitialDoc]
    /\ resp = NoResps
    /\ nextOid = 1
    /\ clock = 1
    /\ sessions = {}
    /\ started = 0
    /\ dateNow = 0
    /\ catalog = {}
    /\ hosted = SeedDoc.products

\* A token as adminTokens holds it.
Token(tok, expiresAt) == [token |-> tok, expiresAt |-> expiresAt]
\* The admin has logged in once.
LoggedIn == adminTokens = {Token(1, TokenTtl)} /\ nextTok = 2

\* With or without a webhook secret, before and after the store's first use.
Init ==
    /\ secretSet \in BOOLEAN
    /\ dbFile \in {NoFile, FileOf(SeedDoc)}
    /\ InitCommon /\ LoggedIn
\* A configured store with its catalog.
InitShop ==
    /\ secretSet = TRUE
    /\ dbFile = FileOf(SeedDoc)
    /\ InitCommon /\ LoggedIn

\* Concurrent storefront traffic, a concurrent restock, write failures and
\* crashes.  A read of an existing db.json succeeds (ReadFail without ioError).
Next ==
    \/ \E h \in Reqs : HookStart(h, FALSE, MaxRequests)
    \/ \E h \in Reqs : CheckoutStart(h, FALSE, MaxRequests, Carts \cup {<<>>})
    \/ \E h \in Reqs : AdminStart(h, FALSE, MaxRequests, AdminLight, {1})
    \/ \E h \in Reqs : ReadOk(h)
    \/ \E h \in Reqs : ReadFail(h, FALSE)
    \/ \E h \in Reqs : Cont(h)
    \/ StartWrite
    \/ FinishWrite
    \/ Rename
    \/ WriteError
    \/ \E h \in Reqs : SessionOk(h)
    \/ \E h \in Reqs : SessionFail(h)
    \/ Crash

\* The same, one request at a time, with every admin product request.
NextSeq ==
    \/ \E h \in Reqs : HookStart(h, TRUE, MaxRequests)
    \/ \E h \in Reqs : CheckoutStart(h, TRUE, MaxRequests, Carts \cup {<<>>})
    \/ \E h \in Reqs : AdminStart(h, TRUE, MaxRequests, AdminAll, {1})
    \/ \E h \in Reqs : ReadOk(h)
    \/ \E h \in Reqs : ReadFail(h, FALSE)
    \/ \E h \in Reqs : Cont(h)
    \/ StartWrite
    \/ FinishWrite
    \/ Rename
    \/ WriteError
    \/ \E h \in Reqs : SessionOk(h)
    \/ \E h \in Reqs : SessionFail(h)
    \/ Crash

\* Checkouts and payment events only, concurrent, on storage that works.
NextShop ==
    \/ \E h \in Reqs : HookStart(h, FALSE, MaxShopRequests)
    \/ \E h \in Reqs : CheckoutStart(h, FALSE, MaxShopRequests, Carts)
    \/ \E h \in Reqs : ReadOk(h)
    \/ \E h \in Reqs : Cont(h)
    \/ StartWrite
    \/ FinishWrite
    \/ Rename
    \/ \E h \in Reqs : SessionOk(h)

\* Checkouts with every kind of cart, one at a time, on storage that works.
InitCart ==
    /\ secretSet = TRUE
    /\ dbFile \in {FileOf(d) : d \in CartDocs}
    /\ InitCommon /\ LoggedIn

NextCart ==
    \/ \E h \in Reqs : CheckoutStart(h, TRUE, MaxCartRequests, CartInputs)
    \/ \E h \in Reqs : ReadOk(h)
    \/ \E h \in Reqs : Cont(h)
    \/ StartWrite
    \/ FinishWrite
    \/ Rename
    \/ \E h \in Reqs : SessionOk(h)
    \/ \E h \in Reqs : SessionFail(h)

\* Checkouts, payment events and admin edits with every kind of number, one
\* request at a time, on storage that works.
NextLedger ==
    \/ \E h \in Reqs : HookStart(h, TRUE, MaxLedgerRequests)
    \/ \E h \in Reqs : CheckoutStart(h, TRUE, MaxLedgerRequests, LedgerCarts)
    \/ \E h \in Reqs : AdminStart(h, TRUE, MaxLedgerRequests, AdminLedger, {1})
    \/ \E h \in Reqs : ReadOk(h)
    \/ \E h \in Reqs : Cont(h)
    \/ StartWrite
    \/ FinishWrite
    \/ Rename
    \/ \E h \in Reqs : SessionOk(h)

\* The admin API from the server's start: logins, passing time, the
\* file-backed product routes and the hosted ones, one request at a time.
InitAdmin ==
    /\ secretSet = TRUE
    /\ dbFile = FileOf(SeedDoc)
    /\ InitCommon
    /\ adminTokens = {}
    /\ nextTok = 1

\* What an Authorization header may carry: 0 for none, else a token.
Bearers == 0..MaxLogins

NextAdmin ==
    \/ Login(MaxLogins)
    \/ Tick(MaxNow)
    \/ \E h \in Reqs : AdminStart(h, TRUE, MaxAdminRequests, AdminLight, Bearers)
    \/ \E h \in Reqs : ReadOk(h)
    \/ \E h \in Reqs : Cont(h)
    \/ StartWrite
    \/ FinishWrite
    \/ Rename
    \/ HostedAdmin(Bearers)

\* One request at a time on a configured store whose reads may fail:
\* fsp.readFile rejects or JSON.parse throws although db.json exists.
NextIo ==
    \/ \E h \in Reqs : HookStart(h, TRUE, MaxIoRequests)
    \/ \E h \in Reqs : CheckoutStart(h, TRUE, MaxIoRequests, Carts)
    \/ \E h \in Reqs : AdminStart(h, TRUE, MaxIoRequests, AdminAll, {1})
    \/ \E h \in Reqs : ReadOk(h)
    \/ \E h \in Reqs : ReadFail(h, TRUE)
    \/ \E h \in Reqs : Cont(h)
    \/ StartWrite
    \/ FinishWrite
    \/ Rename
    \/ \E h \in Reqs : SessionOk(h)

\* The hosted-catalog server: products in the hosted table, orders in a
\* db.json that its first reader creates; one request at a time.
InitHosted ==
    /\ secretSet = TRUE
    /\ dbFile = NoFile
    /\ InitCommon /\ LoggedIn

\* The stock an import sets: none, or three units.
Restocks == {NewBody(N(0)), NewBody(N(3))}

NextHosted ==
    \/ \E h \in Reqs : HostedHookStart(h, TRUE, MaxHostedRequests)
    \/ \E h \in Reqs : HostedCheckoutStart(h, TRUE, MaxHostedRequests, Carts)
    \/ \E h \in Reqs : HostedFetch(h)
    \/ BulkImport({1}, Restocks)
    \/ \E h \in Reqs : ReadOk(h)
    \/ \E h \in Reqs : ReadFail(h, FALSE)
    \/ \E h \in Reqs : Cont(h)
    \/ StartWrite
    \/ FinishWrite
    \/ Rename
    \/ \E h \in Reqs : SessionOk(h)

Spec == Init /\ [][Next]_vars
SpecHosted == InitHosted /\ [][NextHosted]_vars
SpecIo == InitShop /\ [][NextIo]_vars
SpecAdmin == InitAdmin /\ [][NextAdmin]_vars
SpecLedger == InitShop /\ [][NextLedger]_vars
SpecCart == InitCart /\ [][NextCart]_vars
SpecSeq == Init /\ [][NextSeq]_vars
SpecShop == InitShop /\ [][NextShop]_vars

\* A store with more stock of every product than the orders of one run can
\* take, under the storefront traffic of NextShop.
StockedDoc ==
    [products |-> [p \in Products |->
                      Product(N(Stocked), TRUE, IF p = "p1" THEN 100 ELSE 250)],
     orders |-> <<>>]

InitStocked ==
    /\ secretSet = TRUE
    /\ dbFile = FileOf(StockedDoc)
    /\ InitCommon /\ LoggedIn

SpecStocked == InitStocked /\ [][NextShop]_vars

\* ------------------------------------------------------- reading the store
\* The status the persisted store shows for order oid.
Status(file, oid) ==
    IF file.kind # "doc" THEN "absent"
    ELSE LET i == FindOrder(file.doc, oid)
         IN  IF i = 0 THEN "absent" ELSE file.doc.orders[i].status

\* The handler in slot h is killed by this step (the process dies).
Killed(h) == pc[h] # "idle" /\ pc'[h] = "idle" /\ resp'[h].code = -1

\* The write of the handler in slot h is renamed into place by this step.
Commits(h) ==
    /\ queue # <<>> /\ Head(queue) = h
    /\ pc[h] = "writeWait"
    /\ wphase # "idle" /\ wphase' = "idle"
    /\ queue' = Tail(queue)
    /\ ~lockBroken'
    /\ ~Killed(h)

\* -------------------------------------------------------------- claims
\* C1: two deliveries of one order's checkout.session.completed event that
\* are handled concurrently never both find the order pending and both
\* perform the paid transition (decrement, paidAt) on it.
C1_OneTransitionPerOrder ==
    \A g \in Reqs, h \in Reqs :
        (g # h /\ kind[g] = "hook" /\ kind[h] = "hook"
              /\ arg[g].orderId = arg[h].orderId /\ pc[g] = "writeWait")
            => pc[h] # "writeWait"

\* C2: no lost update: when a mutating request's write is committed, the
\* document it had read is still the persisted one, so that no write another
\* request made in between is overwritten.
C2_NoLostUpdate ==
    [][\A h \in Reqs : Commits(h) => dbFile = FileOf(base[h])]_vars

\* C3: every stored order is pending or paid, and an order the store has
\* shown as paid is never shown as pending by a later persisted state.
C3_StatusMonotonic ==
    /\ [](dbFile.kind = "doc" =>
            \A i \in 1..Len(dbFile.doc.orders) :
                dbFile.doc.orders[i].status \in {"pending", "paid"})
    /\ [][\A o \in 1..MaxRequests :
            Status(dbFile, o) = "paid" => Status(dbFile', o) # "pending"]_vars

\* C4: a delivery of a confirmation whose order the store already shows as
\* paid changes nothing in the store while it is handled and is answered
\* with success, and the paid order keeps its one paidAt.
C4_SecondDeliveryNoOp ==
    /\ [][\A h \in Reqs :
            (kind[h] = "hook" /\ Status(dbFile, arg[h].orderId) = "paid")
                => /\ dbFile' = dbFile
                   /\ resp'[h].code \in {-1, 200}
                   /\ (pc[h] = "cont" /\ pc'[h] # "cont" /\ ~Killed(h))
                          => /\ resp'[h] = Resp(200, "noop", arg[h].orderId)
                             /\ queue' = queue]_vars
    /\ [][\A o \in 1..MaxRequests :
            Status(dbFile, o) = "paid"
                => LET i == FindOrder(dbFile.doc, o)
                   IN  /\ dbFile'.kind = "doc"
                       /\ Len(dbFile'.doc.orders) >= i
                       /\ dbFile'.doc.orders[i] = dbFile.doc.orders[i]]_vars

\* A second delivery has just been answered as a no-op on a paid order.
C4_Witness ==
    \E h \in Reqs :
        /\ resp[h].code = 200 /\ resp[h].why = "noop"
        /\ Status(dbFile, resp[h].orderId) = "paid"

\* The orders of doc that are paid and contain product p.
PaidWith(doc, p) ==
    {i \in 1..Len(doc.orders) :
        /\ doc.orders[i].status = "paid"
        /\ \E j \in 1..Len(doc.orders[i].items) :
               doc.orders[i].items[j].productId = p}

\* C5: with one unit of p1 in stock and no restocking, at most one order
\* containing p1 is ever persisted as paid.
C5_LastUnitSoldOnce ==
    dbFile.kind = "doc" => Cardinality(PaidWith(dbFile.doc, "p1")) <= 1

\* The quantity the items order of product p.
RECURSIVE QtyOf(_, _)
QtyOf(items, p) ==
    IF items = <<>> THEN N(0)
    ELSE Plus(IF Head(items).productId = p THEN Head(items).qty ELSE N(0),
              QtyOf(Tail(items), p))

\* post is pre after the confirm transition of order oid.
ConfirmEffect(pre, post, oid) ==
    LET i == FindOrder(pre, oid)
    IN  /\ i # 0
        /\ pre.orders[i].status = "pending"
        /\ Len(post.orders) = Len(pre.orders)
        /\ \A j \in 1..Len(pre.orders) :
               /\ post.orders[j].id = pre.orders[j].id
               /\ post.orders[j].items = pre.orders[j].items
               /\ post.orders[j].status =
                      IF j = i THEN "paid" ELSE pre.orders[j].status
        /\ \A p \in Products :
               post.products[p] =
                   IF pre.products[p].present
                          /\ Gt(QtyOf(pre.orders[i].items, p), N(0))
                   THEN [pre.products[p] EXCEPT !.inventory =
                            MathMax(N(0), Minus(@, QtyOf(pre.orders[i].items, p)))]
                   ELSE pre.products[p]

\* C6: when the write of a confirmation for a pending order is committed,
\* the store shows the order as paid, every product of the order with its
\* inventory reduced by the ordered quantity and floored at zero, and every
\* other product and order as before.
C6_ConfirmTransition ==
    [][\A h \in Reqs :
          (kind[h] = "hook" /\ Commits(h))
              => /\ dbFile.kind = "doc" /\ dbFile'.kind = "doc"
                 /\ ConfirmEffect(dbFile.doc, dbFile'.doc, arg[h].orderId)
                 /\ resp'[h] = Resp(200, "paid", arg[h].orderId)]_vars

\* A confirmation has just been committed and answered.
C6_Witness ==
    \E h \in Reqs :
        /\ resp[h].code = 200 /\ resp[h].why = "paid"
        /\ Status(dbFile, resp[h].orderId) = "paid"

\* The /webhook handler in slot h found its order pending (it is about to
\* call writeDb, or waits for it).
Transitioning(h) ==
    /\ kind[h] = "hook"
    /\ \/ pc[h] = "writeWait"
       \/ /\ pc[h] = "cont"
          /\ ShouldPay(db[h], FindOrder(db[h], arg[h].orderId))

\* C7: a confirmation of a pending order is answered with success only by
\* the step that leaves the order paid in the persisted store, and is
\* answered with an error status when its write fails.
C7_AckAfterWrite ==
    [][\A h \in Reqs :
          Transitioning(h)
              => /\ resp'[h].code = 200
                        => Status(dbFile', arg[h].orderId) = "paid"
                 /\ (pc'[h] = "idle" /\ lockBroken')
                        => resp'[h].code = 400]_vars

\* A confirmation has just been answered 400 after its write failed, and
\* the store still shows the order as pending.
C7_Witness ==
    \E h \in Reqs :
        /\ resp[h].code = 400 /\ resp[h].why = "error"
        /\ lockBroken
        /\ Status(dbFile, resp[h].orderId) = "pending"

\* C8: a checkout answered 500 after Stripe session creation failed has left
\* no order of its own in the persisted store.
C8_FailedCheckoutLeavesNothing ==
    \A h \in Reqs :
        (resp[h].code = 500 /\ resp[h].why = "session")
            => Status(dbFile, resp[h].orderId) = "absent"

\* C9: every handler that calls writeDb has its write chained for execution,
\* whatever happened to earlier writes.
C9_LaterWritesAttempted ==
    [][\A h \in Reqs :
          (/\ pc[h] = "cont"
           /\ HandlerCont(kind[h], arg[h], db[h], clock, nextOid).enq
           /\ pc'[h] # "cont"
           /\ ~Killed(h))
              => (pc'[h] = "writeWait" /\ queue' = Append(queue, h))]_vars

\* C10: db.json is absent or a complete document, and each change of it
\* installs exactly the document of the oldest pending writeDb call.
C10_NoTornStore ==
    /\ [](dbFile.kind \in {"none", "doc"})
    /\ [][dbFile' # dbFile
            => /\ queue # <<>>
               /\ pc[Head(queue)] \in {"writeWait", "initWait"}
               /\ dbFile' = FileOf(db[Head(queue)])]_vars

\* A write was interrupted while its temp file was partial, and db.json is
\* a complete document.
C10_Witness ==
    /\ tmpFile.kind = "torn" /\ wphase = "idle"
    /\ dbFile.kind = "doc" /\ dbFile.doc.orders # <<>>

\* The cart line asks for a product that is missing, inactive or out of
\* stock, or for more units than doc has of it.
Offending(doc, line) ==
    LET p == Lookup(doc, line.id)
    IN  \/ ~p.present \/ ~p.active
        \/ Le(p.inventory, N(0))
        \/ Gt(ToNumber(line.qty), p.inventory)

\* C11: a checkout whose cart has an offending line is answered with a
\* rejection that names an offending item, and creates no order.
C11_BadLineRejected ==
    [][\A h \in Reqs :
          (/\ kind[h] = "checkout" /\ pc[h] = "cont" /\ pc'[h] # "cont"
           /\ \E i \in 1..Len(arg[h].cart) : Offending(db[h], arg[h].cart[i]))
              => /\ resp'[h].code = 400
                 /\ \E i \in 1..Len(arg[h].cart) :
                        /\ Offending(db[h], arg[h].cart[i])
                        /\ resp'[h].item = arg[h].cart[i].id
                 /\ queue' = queue]_vars

\* The document readDb would return from file (the initial one if none).
StoreOf(file) == IF file.kind = "doc" THEN file.doc ELSE InitialDoc

\* C12: the step that commits a checkout's write leaves every product of
\* the persisted store as it was.
C12_CheckoutKeepsInventory ==
    [][\A h \in Reqs :
          (kind[h] = "checkout" /\ Commits(h))
              => StoreOf(dbFile').products = StoreOf(dbFile).products]_vars

\* v is an integer in 1..99.
IsQty(v) == v.t = "num" /\ v.h % 2 = 0 /\ 2 * MinQty <= v.h /\ v.h <= 2 * MaxQty

\* The quantities of the order items of doc.
QtysOf(doc) ==
    UNION {{doc.orders[i].items[j].qty : j \in 1..Len(doc.orders[i].items)} :
              i \in 1..Len(doc.orders)}

\* C13: every quantity a checkout records in an order item, in its own
\* document and in the persisted store, is an integer in 1..99.
C13_QtyClamped ==
    /\ \A v \in QtysOf(StoreOf(dbFile)) : IsQty(v)
    /\ \A h \in Reqs : \A v \in QtysOf(db[h]) : IsQty(v)

\* The sum over items of priceCents times qty, as a number.
RECURSIVE SumOf(_)
SumOf(items) ==
    IF items = <<>> THEN N(0)
    ELSE Plus(Times(Head(items).priceCents, Head(items).qty), SumOf(Tail(items)))

\* C14: every stored order's subtotalCents is the sum of its items'
\* priceCents times qty, and a stored order keeps its items and subtotal
\* in every later persisted state.
C14_SubtotalFixed ==
    /\ [](\A i \in 1..Len(StoreOf(dbFile).orders) :
            LET o == StoreOf(dbFile).orders[i]
            IN  o.subtotalCents.t = "num" /\ o.subtotalCents = SumOf(o.items))
    /\ [][\A i \in 1..Len(StoreOf(dbFile).orders) :
            LET o == StoreOf(dbFile).orders[i]
                j == FindOrder(StoreOf(dbFile'), o.id)
            IN  j # 0 => /\ StoreOf(dbFile').orders[j].items = o.items
                         /\ StoreOf(dbFile').orders[j].subtotalCents
                                = o.subtotalCents]_vars

\* The cart with nothing on its lines but product ids and quantities.
PriceFree(cart) == [i \in 1..Len(cart) |-> Line(cart[i].id, cart[i].qty)]

\* C15: the order a checkout pushes and the line items it sends to the
\* payment processor are those of the same cart without client prices, and
\* each order item's price is the catalog price of the document it read.
C15_ClientPriceIgnored ==
    [][\A h \in Reqs :
          (kind[h] = "checkout" /\ pc[h] = "cont" /\ pc'[h] = "writeWait") =>
             LET cart == arg[h].cart
                 plain == CheckoutCont([arg[h] EXCEPT !.cart = PriceFree(cart)],
                                       db[h], nextOid)
                 o == db'[h].orders[Len(db'[h].orders)]
             IN  /\ db'[h] = plain.db
                 /\ arg'[h].lines = plain.arg.lines
                 /\ Len(o.items) = Len(cart)
                 /\ \A i \in 1..Len(cart) :
                       /\ o.items[i].priceCents
                             = Lookup(db[h], cart[i].id).priceCents
                       /\ arg'[h].lines[i].unit_amount
                             = Lookup(db[h], cart[i].id).priceCents]_vars

\* A checkout has pushed an order for a cart whose line carried a price.
C15_Witness ==
    \E h \in Reqs : /\ kind[h] = "checkout" /\ pc[h] = "writeWait"
                    /\ \E i \in 1..Len(arg[h].cart) :
                          arg[h].cart[i].price # Undefined

\* No token in adminTokens would pass requireAdmin now.
NoValidToken == \A x \in adminTokens : dateNow > x.expiresAt

\* C16: while no issued token is unexpired no admin request gets past its
\* credential check and neither the store nor the hosted catalog is
\* mutated by one, and a token removed as expired is never accepted again.
C16_AdminNeedsCredential ==
    [][/\ NoValidToken =>
            /\ catalog' = catalog
            /\ \A h \in Reqs :
                  ~(pc[h] = "idle" /\ kind'[h] = "admin" /\ pc'[h] # "idle")
       /\ \A x \in adminTokens' : x \in adminTokens \/ x.token >= nextTok]_vars

\* C17: a payment event that fails verification or is not a completed
\* payment is answered without reading or writing the store, the bad
\* signature with an error; an event for an order that is not in the ledger
\* is acknowledged without a write; only a verified completed event for an
\* order of the ledger gets a write of the webhook's into the store.
C17_NoTransitionNoChange ==
    [][\A h \in Reqs :
          /\ (pc[h] = "idle" /\ kind'[h] = "hook") =>
                /\ secretSet /\ arg'[h].sig /\ arg'[h].completed
                /\ arg'[h].orderId # 0
          /\ (pc[h] = "idle" /\ pc'[h] = "idle" /\ resp'[h].why = "badsig") =>
                resp'[h].code = 400
          /\ (pc[h] = "idle" /\ pc'[h] = "idle"
                 /\ resp'[h].why \in {"badsig", "skipped", "ignored"}) =>
                queue' = queue /\ dbFile' = dbFile
          /\ (kind[h] = "hook" /\ pc[h] = "cont" /\ pc'[h] # "cont"
                 /\ ~Killed(h) /\ FindOrder(db[h], arg[h].orderId) = 0) =>
                /\ resp'[h].code = 200 /\ pc'[h] = "idle"
                /\ queue' = queue /\ dbFile' = dbFile
          /\ (kind[h] = "hook" /\ Commits(h)) =>
                /\ secretSet /\ arg[h].sig /\ arg[h].completed
                /\ FindOrder(base[h], arg[h].orderId) # 0]_vars

\* A payment event for an order that is not in the store has just been
\* acknowledged, and the store holds a document.
C17_Witness ==
    \E h \in Reqs : /\ resp[h].code = 200 /\ resp[h].why = "unknown"
                    /\ resp[h].orderId # 0
                    /\ dbFile.kind = "doc"

\* This step is the rename of the oldest chained write.
Renames == wphase = "written" /\ wphase' = "idle" /\ tmpFile' = NoFile

\* C18: a write starts only when no written temp file is waiting to be
\* renamed; the rename puts in place the document of the oldest chained
\* writeDb call and leaves the later calls chained in their order; a new
\* call is chained behind all of them; a read returns the document the
\* last rename put in place.
C18_WritesOrdered ==
    [][/\ (wphase = "idle" /\ wphase' = "writing") =>
            queue # <<>> /\ tmpFile.kind # "doc"
       /\ Renames =>
            /\ queue # <<>>
            /\ dbFile' = FileOf(db[Head(queue)])
            /\ Len(queue') >= Len(queue) - 1
            /\ SubSeq(queue', 1, Len(queue) - 1) = Tail(queue)
       /\ (~Renames /\ queue' # <<>>) =>
            /\ Len(queue') >= Len(queue)
            /\ SubSeq(queue', 1, Len(queue)) = queue
       /\ \A h \in Reqs :
            (pc[h] = "read" /\ pc'[h] = "cont") =>
                dbFile.kind = "doc" /\ db'[h] = dbFile.doc]_vars

\* Two writeDb calls are chained and the first one's temp file is written.
C18_Witness == Len(queue) = 2 /\ wphase = "written"

\* Every product of the document has a number that is not negative as its
\* inventory.
StockOk(doc) ==
    \A id \in Products :
        doc.products[id].present =>
            IsFinite(doc.products[id].inventory)
            /\ ~Lt(doc.products[id].inventory, N(0))

\* C19: every product of the persisted store, and of every document a
\* handler has passed to writeDb, has an inventory that is a number and is
\* not negative.
C19_InventoryNotNegative ==
    /\ StockOk(StoreOf(dbFile))
    /\ tmpFile.kind = "doc" => StockOk(tmpFile.doc)
    /\ \A h \in Reqs : pc[h] = "writeWait" => StockOk(db[h])

\* An admin update that asked for a negative inventory is about to be
\* written, with the product's inventory at 0.
C19_Witness ==
    \E h \in Reqs : /\ kind[h] = "admin" /\ pc[h] = "writeWait"
                    /\ arg[h].op = "update"
                    /\ Lt(ToNumber(arg[h].body.inventory), N(0))
                    /\ db[h].products[arg[h].pid].inventory = N(0)

\* This step renames into place the write readDb's catch block chained.
Recovers == Renames /\ queue # <<>> /\ pc[Head(queue)] = "initWait"

\* C20: the write of readDb's catch block removes no product and no order
\* that the persisted store held.
C20_FailedReadKeepsData ==
    [][Recovers =>
          /\ \A id \in Products :
                StoreOf(dbFile).products[id].present =>
                    StoreOf(dbFile').products[id] = StoreOf(dbFile).products[id]
          /\ \A i \in 1..Len(StoreOf(dbFile).orders) :
                FindOrder(StoreOf(dbFile'), StoreOf(dbFile).orders[i].id) # 0]_vars

\* C21: when the hosted-catalog server's webhook commits the paid transition
\* of a pending order, each product of the order has its inventory in the
\* products table reduced by the ordered quantity, floored at zero.
C21_HostedConfirmDecrements ==
    [][\A h \in Reqs :
          (/\ kind[h] = "hostedHook" /\ Commits(h)
           /\ Status(dbFile, arg[h].orderId) = "pending"
           /\ Status(dbFile', arg[h].orderId) = "paid") =>
              LET items == dbFile.doc.orders[FindOrder(dbFile.doc,
                                                       arg[h].orderId)].items
              IN  \A p \in Products :
                     (hosted[p].present /\ Gt(QtyOf(items, p), N(0))) =>
                        hosted'[p].inventory =
                            MathMax(N(0), Minus(hosted[p].inventory,
                                                QtyOf(items, p)))]_vars

\* C22: in the order an accepted checkout pushes, the quantity ordered of
\* each product, summed over the order's items, does not exceed the
\* inventory the product had in the document the checkout read.
C22_CartWithinStock ==
    [][\A h \in Reqs :
          (kind[h] = "checkout" /\ pc[h] = "cont" /\ pc'[h] = "writeWait") =>
             LET o == db'[h].orders[Len(db'[h].orders)]
             IN  \A p \in Products :
                    ~Gt(QtyOf(o.items, p),
                        ToNumber(Nullish(Lookup(db[h], p).inventory, N(0))))]_vars

\* The quantity of product p over the paid orders of a sequence of orders.
RECURSIVE PaidQty(_, _)
PaidQty(orders, p) ==
    IF orders = <<>> THEN N(0)
    ELSE Plus(IF Head(orders).status = "paid"
              THEN QtyOf(Head(orders).items, p) ELSE N(0),
              PaidQty(Tail(orders), p))

\* C23: in every persisted document, each product's initial inventory minus
\* its inventory equals the quantity of that product over the document's
\* paid orders.
C23_StockMatchesPaidOrders ==
    dbFile.kind = "doc" =>
        \A p \in Products :
            /\ dbFile.doc.products[p].present
            /\ Gt(dbFile.doc.products[p].inventory, N(0))
            /\ Minus(N(Stocked), dbFile.doc.products[p].inventory)
                  = PaidQty(dbFile.doc.orders, p)

\* A confirmation has just been persisted and answered while another
\* confirmation, which read the store before it, waits for its own write.
C23_Witness ==
    \E h \in Reqs, g \in Reqs :
        /\ h # g
        /\ resp[h].code = 200 /\ resp[h].why = "paid"
        /\ kind[g] = "hook" /\ pc[g] = "writeWait"
        /\ dbFile.kind = "doc" /\ PaidWith(dbFile.doc, "p1") # {}

====
